---- MODULE Spec2Model ----
(***************************************************************************)
(* The policy evaluation engine of react-pbac: getAccessPolicy and the     *)
(* can / canAll / canAny functions it returns                              *)
(* (src/src/createAccessControl.tsx).                                      *)
(*                                                                         *)
(* A policy is a sequence of statements.  A statement is a record          *)
(*   [resource, actions, effect, conditions]                               *)
(* where actions is a sequence of strings and conditions is either absent  *)
(* or a sequence of attribute-maps.  An attribute-map is a function from a *)
(* finite set of keys to values.  The third argument of can is absent, one *)
(* attribute-map, or an array of attribute-maps.                           *)
(*                                                                         *)
(* Four specifications share the engine: Spec (policies and calls),        *)
(* SpecCond (conditions and contexts), SpecCalls (a caller making calls    *)
(* one after another through several bound objects) and SpecTree (the      *)
(* AccessPolicyProvider, useAccessPolicy, AccessPolicyGuard and            *)
(* withAccessPolicy of the React binding).                                 *)
(***************************************************************************)
EXTENDS Naturals, Sequences, FiniteSets

VARIABLES accessControlPolicy, call, bound, pending, history, provider, rendered

vars == <<accessControlPolicy, call, bound, pending, history, provider, rendered>>

(***************************************************************************)
(* Bounds of the model.                                                    *)
(***************************************************************************)
\* longest policy of the policy-level specification
MaxStmts == 2
\* longest action list handed to canAll / canAny
MaxActs == 2
\* longest conditions list of a statement in the condition-level specification
MaxConds == 2
\* longest array of context candidates in the condition-level specification
MaxCtx == 2

(***************************************************************************)
(* Values.                                                                 *)
(***************************************************************************)
\* the value JavaScript yields for a property an object does not have
Undefined == "undefined"

Keys == {"a", "b"}
Values == {"1", "2"}

PartialMaps(K, V) == UNION {[D -> V] : D \in SUBSET K}

SeqsUpTo(S, n) == UNION {[1..k -> S] : k \in 0..n}

\* optional field / optional argument: absent, or present with a value
Absent == [present |-> FALSE, value |-> <<>>]
Present(v) == [present |-> TRUE, value |-> v]

\* the third argument of can: undefined, one map, or an array of maps
EmptyMap == [key \in {} |-> Undefined]
NoContext == [kind |-> "undefined", object |-> EmptyMap, array |-> <<>>]
OneContext(m) == [kind |-> "object", object |-> m, array |-> <<>>]
ArrayContext(s) == [kind |-> "array", object |-> EmptyMap, array |-> s]

Statement(r, as, e, c) == [resource |-> r, actions |-> as, effect |-> e, conditions |-> c]

(***************************************************************************)
(* can (createAccessControl.tsx:56-120), step by step.                     *)
(***************************************************************************)
\* Array.prototype.includes on a sequence
Includes(s, x) == \E i \in 1..Len(s) : s[i] = x

\* inputCondition[key]: the value of the key, undefined when the key is missing
Lookup(m, key) == IF key \in DOMAIN m THEN m[key] ELSE Undefined

\* variant: of an array only the first candidate is kept
inputConditionsFirst(conditions) ==
    IF conditions.kind = "array"
    THEN IF Len(conditions.array) > 0 THEN <<conditions.array[1]>> ELSE <<>>
    ELSE IF conditions.kind = "object" THEN <<conditions.object>>
    ELSE <<>>

\* lines 65-69: normalize the input conditions to an array
inputConditions(conditions) ==
    IF conditions.kind = "array" THEN conditions.array
    ELSE IF conditions.kind = "object" THEN <<conditions.object>>
    ELSE <<>>

\* lines 72-74: the statements relevant to this resource
IsRelevant(stmt, resource) == stmt.resource = resource

\* variant: find in place of filter, only the first relevant statement is kept
relevantStatementsFirst(policy, resource) ==
    LET found == SelectSeq(policy, LAMBDA stmt : IsRelevant(stmt, resource))
    IN  IF Len(found) = 0 THEN <<>> ELSE <<Head(found)>>

relevantStatements(policy, resource) ==
    SelectSeq(policy, LAMBDA stmt : IsRelevant(stmt, resource))

\* variant: the wildcard is not looked for
actionMatchesExact(stmt, action) == Includes(stmt.actions, action)

\* lines 78-79
actionMatches(stmt, action) ==
    Includes(stmt.actions, "*") \/ Includes(stmt.actions, action)

\* line 84: stmt.conditions || []
policyConditions(stmt) ==
    IF stmt.conditions.present THEN stmt.conditions.value ELSE <<>>

\* variant: some in place of every over the entries
entriesMatchSome(policyCondition, inputCondition) ==
    \E key \in DOMAIN policyCondition :
        Lookup(inputCondition, key) = policyCondition[key]

\* variant: a policy condition without entries matches nothing
entriesMatchNonEmpty(policyCondition, inputCondition) ==
    /\ DOMAIN policyCondition # {}
    /\ \A key \in DOMAIN policyCondition :
           Lookup(inputCondition, key) = policyCondition[key]

\* lines 96-98: every entry of the policy condition equals the input's value
entriesMatch(policyCondition, inputCondition) ==
    \A key \in DOMAIN policyCondition :
        Lookup(inputCondition, key) = policyCondition[key]

\* lines 93-100: some policy condition matches some input condition
anyMatch(pcs, ics) ==
    \E p \in 1..Len(pcs) : \E i \in 1..Len(ics) : entriesMatch(pcs[p], ics[i])

\* variant: without input conditions the statement's conditions are not looked at
conditionMatchesNoInput(stmt, ics) ==
    IF Len(policyConditions(stmt)) > 0
    THEN IF Len(ics) = 0 THEN TRUE ELSE anyMatch(policyConditions(stmt), ics)
    ELSE TRUE

\* variant: without input conditions a conditional deny counts as matching
conditionMatchesDenyClosed(stmt, ics) ==
    IF Len(policyConditions(stmt)) > 0
    THEN IF Len(ics) = 0 THEN stmt.effect = "deny"
         ELSE anyMatch(policyConditions(stmt), ics)
    ELSE TRUE

\* variant: the length of the statement's conditions is not tested first
conditionMatchesNoLength(stmt, ics) ==
    IF Len(ics) = 0 THEN Len(policyConditions(stmt)) = 0
    ELSE anyMatch(policyConditions(stmt), ics)

\* lines 83-106
conditionMatches(stmt, ics) ==
    IF Len(policyConditions(stmt)) > 0
    THEN IF Len(ics) = 0 THEN FALSE ELSE anyMatch(policyConditions(stmt), ics)
    ELSE TRUE

\* variant: a matching deny clears isAllowed and the loop goes on, so that a
\* later allow wins
RECURSIVE ScanLastWins(_, _, _, _, _)
ScanLastWins(stmts, i, action, ics, isAllowed) ==
    IF i > Len(stmts) THEN isAllowed
    ELSE IF ~actionMatches(stmts[i], action) THEN ScanLastWins(stmts, i + 1, action, ics, isAllowed)
    ELSE IF ~conditionMatches(stmts[i], ics) THEN ScanLastWins(stmts, i + 1, action, ics, isAllowed)
    ELSE ScanLastWins(stmts, i + 1, action, ics, stmts[i].effect = "allow")

\* variant: the first matching statement decides, allow as well as deny
RECURSIVE ScanFirstMatch(_, _, _, _, _)
ScanFirstMatch(stmts, i, action, ics, isAllowed) ==
    IF i > Len(stmts) THEN isAllowed
    ELSE IF ~actionMatches(stmts[i], action) THEN ScanFirstMatch(stmts, i + 1, action, ics, isAllowed)
    ELSE IF ~conditionMatches(stmts[i], ics) THEN ScanFirstMatch(stmts, i + 1, action, ics, isAllowed)
    ELSE stmts[i].effect = "allow"

\* lines 76-119: the loop over the relevant statements from index i on, with
\* the current isAllowed; a matching deny returns false at once
RECURSIVE Scan(_, _, _, _, _)
Scan(stmts, i, action, ics, isAllowed) ==
    IF i > Len(stmts) THEN isAllowed
    ELSE IF ~actionMatches(stmts[i], action) THEN Scan(stmts, i + 1, action, ics, isAllowed)
    ELSE IF ~conditionMatches(stmts[i], ics) THEN Scan(stmts, i + 1, action, ics, isAllowed)
    ELSE IF stmts[i].effect = "deny" THEN FALSE
    ELSE IF stmts[i].effect = "allow" THEN Scan(stmts, i + 1, action, ics, TRUE)
    ELSE Scan(stmts, i + 1, action, ics, isAllowed)

\* variant: isAllowed starts as true
canDefaultAllow(policy, resource, action, conditions) ==
    Scan(relevantStatements(policy, resource), 1, action,
         inputConditions(conditions), TRUE)

\* lines 56-120
can(policy, resource, action, conditions) ==
    Scan(relevantStatements(policy, resource), 1, action,
         inputConditions(conditions), FALSE)

\* Array.prototype.every / some over the actions from index i on
RECURSIVE EveryFrom(_, _, _, _, _)
EveryFrom(policy, resource, actions, i, conditions) ==
    IF i > Len(actions) THEN TRUE
    ELSE IF ~can(policy, resource, actions[i], conditions) THEN FALSE
    ELSE EveryFrom(policy, resource, actions, i + 1, conditions)

RECURSIVE SomeFrom(_, _, _, _, _)
SomeFrom(policy, resource, actions, i, conditions) ==
    IF i > Len(actions) THEN FALSE
    ELSE IF can(policy, resource, actions[i], conditions) THEN TRUE
    ELSE SomeFrom(policy, resource, actions, i + 1, conditions)

\* variant: some in place of every
canAllSome(policy, resource, actions, conditions) ==
    SomeFrom(policy, resource, actions, 1, conditions)

\* lines 122-129
canAll(policy, resource, actions, conditions) ==
    EveryFrom(policy, resource, actions, 1, conditions)

\* variant: every in place of some
canAnyEvery(policy, resource, actions, conditions) ==
    EveryFrom(policy, resource, actions, 1, conditions)

\* lines 131-138
canAny(policy, resource, actions, conditions) ==
    SomeFrom(policy, resource, actions, 1, conditions)

(***************************************************************************)
(* The inputs the callers supply.                                          *)
(***************************************************************************)
Effects == {"allow", "deny"}
Resources == {"POST", "USER"}
Actions == {"read", "update"}

\* attribute-maps of a query context, and condition-sets of a statement
\* (a condition-set may also hold an undefined value, as in {a: undefined})
ContextMaps == PartialMaps(Keys, Values)
CondSets ==
    PartialMaps(Keys, Values) \cup {[k \in {key} |-> Undefined] : key \in Keys}

\* policy-level inputs: several statements, few conditions
StmtResources == {"POST", "*"}
StmtActions == {<<"read">>, <<"*">>}
StmtMaps == {[k \in {"a"} |-> v] : v \in Values}
StmtConditions == {Absent, Present(<<[k \in {"a"} |-> "1"]>>)}
PolicyStatements ==
    {Statement(r, as, e, c) : r \in StmtResources, as \in StmtActions,
                              e \in Effects, c \in StmtConditions}
Policies == SeqsUpTo(PolicyStatements, MaxStmts)
Contexts ==
    {NoContext, ArrayContext(<<>>)} \cup {OneContext(m) : m \in StmtMaps}
    \cup {ArrayContext(<<m>>) : m \in StmtMaps}
ActionLists == SeqsUpTo(Actions, MaxActs)

\* condition-level inputs: one statement on the queried resource and action,
\* an allow statement with any conditions list or a deny statement without
\* conditions, and every context
CondConditions == {Absent} \cup {Present(l) : l \in SeqsUpTo(CondSets, MaxConds)}
CondPolicies ==
    {<<Statement("POST", <<"read">>, "allow", c)>> : c \in CondConditions}
    \cup {<<Statement("POST", <<"read">>, "deny", c)>> : c \in {Absent, Present(<<>>)}}
CondContexts ==
    {NoContext} \cup {OneContext(m) : m \in ContextMaps}
    \cup {ArrayContext(l) : l \in SeqsUpTo(ContextMaps, MaxCtx)}

(***************************************************************************)
(* The state machine: a bound object (the policy getAccessPolicy closed    *)
(* over) and the call made through it, with its result.  The engine is     *)
(* synchronous: a call runs to its result, the caller takes the result,    *)
(* and only then is the next call made.                                    *)
(*                                                                         *)
(*   accessControlPolicy  the policy handed to getAccessPolicy / to the    *)
(*                        provider                                         *)
(*   bound                the object getAccessPolicy returned              *)
(*   call                 the call in progress and its result              *)
(*   pending              the arguments the caller of a call holds         *)
(*   history              the calls completed so far, latest last          *)
(*   provider             the AccessPolicyProvider of the React tree       *)
(*   rendered             the consumer rendered below it and its output    *)
(***************************************************************************)
\* line 140: the object getAccessPolicy returns, with the policy its
\* functions closed over
BoundTo(policy) == [defined |-> TRUE, policy |-> policy]

\* lines 45-47: the default value of AccessPolicyContext
NoObject == [defined |-> FALSE, policy |-> <<>>]

\* no AccessPolicyProvider has been rendered
NoProvider ==
    [mounted |-> FALSE, isLoading |-> FALSE, deps |-> <<>>, previous |-> <<>>]

\* no consumer has been rendered
NotRendered ==
    [component |-> "none", op |-> "none", resource |-> "", actions |-> <<>>,
     conditions |-> NoContext, fallback |-> FALSE, loadingFallback |-> FALSE,
     error |-> "", decision |-> "none", output |-> "none"]

\* what a call through the engine leaves alone
callFrame == <<accessControlPolicy, bound, pending, history, provider, rendered>>

NoCall ==
    [op |-> "none", resource |-> "", actions |-> <<>>, conditions |-> NoContext,
     result |-> FALSE]

\* lines 55-141: the object getAccessPolicy(policy) returns closes over the
\* policy; nothing has been called on it yet
getAccessPolicy(policy) ==
    /\ accessControlPolicy = policy
    /\ bound = BoundTo(policy)
    /\ call = NoCall

\* a plain caller of the engine: no React tree is rendered
NoTree == provider = NoProvider /\ rendered = NotRendered

\* nothing has been called yet
NoCalls == pending = NoCall /\ history = <<>>

CallCan(resource, action, conditions) ==
    /\ call.op = "none"
    /\ call' = [op |-> "can", resource |-> resource, actions |-> <<action>>,
                conditions |-> conditions,
                result |-> can(accessControlPolicy, resource, action, conditions)]
    /\ UNCHANGED callFrame

CallCanAll(resource, actions, conditions) ==
    /\ call.op = "none"
    /\ call' = [op |-> "canAll", resource |-> resource, actions |-> actions,
                conditions |-> conditions,
                result |-> canAll(accessControlPolicy, resource, actions, conditions)]
    /\ UNCHANGED callFrame

CallCanAny(resource, actions, conditions) ==
    /\ call.op = "none"
    /\ call' = [op |-> "canAny", resource |-> resource, actions |-> actions,
                conditions |-> conditions,
                result |-> canAny(accessControlPolicy, resource, actions, conditions)]
    /\ UNCHANGED callFrame

\* the caller has taken the result
Return ==
    /\ call.op # "none"
    /\ call' = NoCall
    /\ UNCHANGED callFrame

\* policy-level specification
Init == (\E policy \in Policies : getAccessPolicy(policy)) /\ NoCalls /\ NoTree

Can ==
    \E resource \in Resources, action \in Actions, conditions \in Contexts :
        CallCan(resource, action, conditions)

CanAll ==
    \E resource \in Resources, actions \in ActionLists, conditions \in Contexts :
        CallCanAll(resource, actions, conditions)

CanAny ==
    \E resource \in Resources, actions \in ActionLists, conditions \in Contexts :
        CallCanAny(resource, actions, conditions)

Next == Can \/ CanAll \/ CanAny \/ Return

Spec == Init /\ [][Next]_vars

\* condition-level specification
InitCond ==
    (\E policy \in CondPolicies : getAccessPolicy(policy)) /\ NoCalls /\ NoTree

CanCond == \E conditions \in CondContexts : CallCan("POST", "read", conditions)

NextCond == CanCond \/ Return

SpecCond == InitCond /\ [][NextCond]_vars

(***************************************************************************)
(* Vocabulary of the properties, stated on the inputs of the call and      *)
(* independently of the evaluation above.                                  *)
(***************************************************************************)
Range(s) == {s[i] : i \in 1..Len(s)}

IsCan == call.op = "can"
Queried == call.actions[1]

\* the candidate attribute-maps a query supplies
Candidates(conditions) ==
    CASE conditions.kind = "array" -> Range(conditions.array)
      [] conditions.kind = "object" -> {conditions.object}
      [] OTHER -> {}

\* the statement names the action, literally or by the wildcard
NamesAction(stmt, action) == action \in Range(stmt.actions) \/ "*" \in Range(stmt.actions)

\* the statement has a non-empty conditions list
IsConditional(stmt) == stmt.conditions.present /\ stmt.conditions.value # <<>>

\* every key of the condition-set is present in the candidate with an equal value
PairMatches(c, m) == \A k \in DOMAIN c : k \in DOMAIN m /\ m[k] = c[k]

\* the statement's conditions are satisfied by the query's context
IsSatisfied(stmt, conditions) ==
    IsConditional(stmt) =>
        \E c \in Range(stmt.conditions.value) :
            \E m \in Candidates(conditions) : PairMatches(c, m)

\* statement i of the bound policy is on the queried resource and action and
\* is satisfied by the queried context
Applies(i) ==
    /\ accessControlPolicy[i].resource = call.resource
    /\ NamesAction(accessControlPolicy[i], Queried)
    /\ IsSatisfied(accessControlPolicy[i], call.conditions)

StmtIndices == 1..Len(accessControlPolicy)

NoStatementMatches ==
    \A i \in StmtIndices :
        ~ (/\ accessControlPolicy[i].resource \in {call.resource, "*"}
           /\ NamesAction(accessControlPolicy[i], Queried))

DefaultDeny == (IsCan /\ NoStatementMatches) => call.result = FALSE

\* a policy of allow statements, none of them on the queried action
DefaultDenyWitness ==
    /\ IsCan /\ NoStatementMatches
    /\ Len(accessControlPolicy) > 0
    /\ \A i \in StmtIndices : accessControlPolicy[i].effect = "allow"
    /\ call.conditions.kind = "array"
    /\ call.result = FALSE

(***************************************************************************)
(* C3 - Wildcard resource: a statement whose resource is "*" is selected   *)
(* for every queried resource: the policy                                  *)
(*   [{resource: "*", actions: ["*"], effect: "allow"}]                    *)
(* allows every resource and action, and a satisfied deny statement with   *)
(* resource "*" denies every resource.                                     *)
(***************************************************************************)
AdminPolicy == <<Statement("*", <<"*">>, "allow", Absent)>>

WildcardResource ==
    IsCan =>
        /\ accessControlPolicy = AdminPolicy => call.result = TRUE
        /\ (\E i \in StmtIndices :
               /\ accessControlPolicy[i].resource = "*"
               /\ accessControlPolicy[i].effect = "deny"
               /\ NamesAction(accessControlPolicy[i], Queried)
               /\ IsSatisfied(accessControlPolicy[i], call.conditions))
           => call.result = FALSE

(***************************************************************************)
(* C4 - Wildcard action: a statement is skipped iff its actions hold       *)
(* neither the queried action nor "*"; a statement whose actions hold "*"  *)
(* gives, for every queried action, the decision that a statement listing  *)
(* that action explicitly gives.                                           *)
(***************************************************************************)
\* the statement with "*" replaced by the explicit action
Explicit(stmt, action) ==
    [stmt EXCEPT !.actions =
        [n \in 1..Len(stmt.actions) |->
            IF stmt.actions[n] = "*" THEN action ELSE stmt.actions[n]]]

ExplicitPolicy(policy, action) ==
    [n \in 1..Len(policy) |-> Explicit(policy[n], action)]

WildcardAction ==
    IsCan =>
        /\ call.result =
              can(ExplicitPolicy(accessControlPolicy, Queried), call.resource,
                  Queried, call.conditions)
        /\ (/\ Len(accessControlPolicy) = 1
            /\ accessControlPolicy[1].resource = call.resource
            /\ accessControlPolicy[1].effect = "allow"
            /\ ~IsConditional(accessControlPolicy[1]))
           => (call.result = NamesAction(accessControlPolicy[1], Queried))

\* the only statement on the queried resource names the action by "*" alone,
\* and it decided the call
WildcardActionWitness ==
    /\ IsCan /\ call.result = TRUE /\ Queried = "update"
    /\ \A i \in StmtIndices :
          accessControlPolicy[i].resource = call.resource
              => accessControlPolicy[i].actions = <<"*">>

(***************************************************************************)
(* C10 - canAll is the conjunction of can over the actions of the list,    *)
(* and true for the empty list.                                            *)
(***************************************************************************)
CanAllIsConjunction ==
    call.op = "canAll" =>
        /\ call.result =
              \A a \in Range(call.actions) :
                  can(accessControlPolicy, call.resource, a, call.conditions)
        /\ call.actions = <<>> => call.result = TRUE

\* two actions, the first allowed and the second not: canAll is false
CanAllWitness ==
    /\ call.op = "canAll" /\ Len(call.actions) = 2
    /\ can(accessControlPolicy, call.resource, call.actions[1], call.conditions)
    /\ ~can(accessControlPolicy, call.resource, call.actions[2], call.conditions)
    /\ call.result = FALSE

(***************************************************************************)
(* C5 - Condition satisfaction: a statement with a non-empty conditions    *)
(* list is satisfied iff for some condition-set c of the list and some     *)
(* candidate m of the normalized context, m[k] equals c[k] for every key k *)
(* of c; keys of m that c does not mention are ignored.  With conditions   *)
(* [{a:1},{b:2}] the contexts {a:1}, {b:2}, {a:1,b:2} satisfy it and {a:9} *)
(* does not.  (m[k] is the property read: undefined when m has no key k.)  *)
(***************************************************************************)
PropertyOf(m, k) == IF k \in DOMAIN m THEN m[k] ELSE Undefined

TheStatement == accessControlPolicy[1]

SomePairAgrees(stmt, conditions) ==
    \E c \in Range(stmt.conditions.value) :
        \E m \in Candidates(conditions) :
            \A k \in DOMAIN c : PropertyOf(m, k) = c[k]

OrPolicy ==
    <<Statement("POST", <<"read">>, "allow",
                Present(<<[k \in {"a"} |-> "1"], [k \in {"b"} |-> "2"]>>))>>

OrExample ==
    /\ can(OrPolicy, "POST", "read", OneContext([k \in {"a"} |-> "1"]))
    /\ can(OrPolicy, "POST", "read", OneContext([k \in {"b"} |-> "2"]))
    /\ can(OrPolicy, "POST", "read", OneContext([k \in {"a", "b"} |-> IF k = "a" THEN "1" ELSE "2"]))
    /\ ~can(OrPolicy, "POST", "read", OneContext([k \in {"a"} |-> "9"]))

ConditionSatisfaction ==
    /\ (IsCan /\ IsConditional(TheStatement))
          => (call.result = SomePairAgrees(TheStatement, call.conditions))
    /\ OrExample

\* conditions [{a:1},{b:2}] queried with the context {a:1, b:1}: the first
\* condition-set matches, the key b it does not mention is ignored
ConditionSatisfactionWitness ==
    /\ IsCan
    /\ accessControlPolicy = OrPolicy
    /\ call.conditions = OneContext([k \in {"a", "b"} |-> "1"])
    /\ call.result = TRUE

(***************************************************************************)
(* C6 - Missing key fails the pair: when some key of the condition-set is  *)
(* not present in the candidate, the pair does not match, whatever value   *)
(* the condition-set gives the key (an undefined one included); so a       *)
(* conditional statement is satisfied only when some candidate carries     *)
(* every key of some condition-set with an equal value.                    *)
(***************************************************************************)
MissingKeyFails ==
    (IsCan /\ IsConditional(TheStatement) /\ call.result = TRUE)
        => \E c \in Range(TheStatement.conditions.value) :
              \E m \in Candidates(call.conditions) : PairMatches(c, m)

(***************************************************************************)
(* C7 - Missing context with required conditions: a query with zero        *)
(* context candidates (no context, or an empty array) satisfies no         *)
(* statement with a non-empty conditions list: the decision is that of the *)
(* policy without those statements, and false for a policy made only of    *)
(* such allow statements.                                                  *)
(***************************************************************************)
ZeroCandidates ==
    \/ call.conditions.kind = "undefined"
    \/ call.conditions.kind = "array" /\ call.conditions.array = <<>>

WithoutConditional(policy) == SelectSeq(policy, LAMBDA stmt : ~IsConditional(stmt))

OnlyConditionalAllows ==
    \A i \in StmtIndices :
        accessControlPolicy[i].effect = "allow" /\ IsConditional(accessControlPolicy[i])

NoContextFailsConditions ==
    (IsCan /\ ZeroCandidates) =>
        /\ call.result =
              can(WithoutConditional(accessControlPolicy), call.resource, Queried,
                  call.conditions)
        /\ OnlyConditionalAllows => call.result = FALSE

\* two conditional allow statements on the queried resource and action,
\* queried with an empty array
NoContextWitness ==
    /\ IsCan /\ ZeroCandidates /\ call.conditions.kind = "array"
    /\ Len(accessControlPolicy) = 2 /\ OnlyConditionalAllows
    /\ \A i \in StmtIndices :
          /\ accessControlPolicy[i].resource = call.resource
          /\ NamesAction(accessControlPolicy[i], Queried)
    /\ call.result = FALSE

(***************************************************************************)
(* C8 - Context normalization: can(r, a, m) equals can(r, a, [m]); can     *)
(* without context equals can(r, a, []); and an array of candidates        *)
(* satisfies a conditional statement iff one of its candidates does.       *)
(***************************************************************************)
ContextNormalization ==
    IsCan =>
        /\ call.conditions.kind = "object" =>
              call.result = can(accessControlPolicy, call.resource, Queried,
                                ArrayContext(<<call.conditions.object>>))
        /\ call.conditions.kind = "undefined" =>
              call.result = can(accessControlPolicy, call.resource, Queried,
                                ArrayContext(<<>>))
        /\ (call.conditions.kind = "array" /\ IsConditional(TheStatement)) =>
              call.result =
                  \E m \in Range(call.conditions.array) :
                      can(accessControlPolicy, call.resource, Queried, OneContext(m))

\* an array of two candidates of which only the second satisfies the statement
ArrayContextWitness ==
    /\ IsCan /\ IsConditional(TheStatement)
    /\ call.conditions.kind = "array" /\ Len(call.conditions.array) = 2
    /\ ~can(accessControlPolicy, call.resource, Queried, OneContext(call.conditions.array[1]))
    /\ can(accessControlPolicy, call.resource, Queried, OneContext(call.conditions.array[2]))
    /\ call.result = TRUE

(***************************************************************************)
(* C9 - Unconditional statements: a statement whose conditions are absent  *)
(* or an empty list is satisfied for every context (none, a single map of  *)
(* any content, any array), so its effect decides the call whenever its    *)
(* resource and action match.                                              *)
(***************************************************************************)
UnconditionalSatisfied ==
    (IsCan /\ ~IsConditional(TheStatement))
        => (call.result = (TheStatement.effect = "allow"))

\* an allow statement with an empty conditions list, queried with two candidates
UnconditionalWitness ==
    /\ IsCan
    /\ TheStatement.conditions = Present(<<>>) /\ TheStatement.effect = "allow"
    /\ call.conditions.kind = "array" /\ Len(call.conditions.array) = 2
    /\ call.result = TRUE

(***************************************************************************)
(* C11 - canAny is the disjunction of can over the actions of the list,    *)
(* and false for the empty list.                                           *)
(***************************************************************************)
CanAnyIsDisjunction ==
    call.op = "canAny" =>
        /\ call.result =
              \E a \in Range(call.actions) :
                  can(accessControlPolicy, call.resource, a, call.conditions)
        /\ call.actions = <<>> => call.result = FALSE

\* two actions, the first refused and the second allowed: canAny is true
CanAnyWitness ==
    /\ call.op = "canAny" /\ Len(call.actions) = 2
    /\ ~can(accessControlPolicy, call.resource, call.actions[1], call.conditions)
    /\ can(accessControlPolicy, call.resource, call.actions[2], call.conditions)
    /\ call.result = TRUE

(***************************************************************************)
(* C12 - Order independence: can returns the same decision over every      *)
(* permutation of the policy's statements, for every resource, action and  *)
(* context.                                                                *)
(***************************************************************************)
Permutations(n) ==
    {f \in [1..n -> 1..n] : \A i, j \in 1..n : f[i] = f[j] => i = j}

Permuted(policy, f) == [n \in 1..Len(policy) |-> policy[f[n]]]

OrderIndependence ==
    IsCan =>
        \A f \in Permutations(Len(accessControlPolicy)) :
            can(Permuted(accessControlPolicy, f), call.resource, Queried,
                call.conditions) = call.result

\* a satisfied allow and a satisfied deny in either order: false both ways
OrderWitness ==
    /\ IsCan /\ Len(accessControlPolicy) = 2
    /\ accessControlPolicy[1].effect = "deny" /\ Applies(1)
    /\ accessControlPolicy[2].effect = "allow" /\ Applies(2)
    /\ call.result = FALSE
    /\ ~can(<<accessControlPolicy[2], accessControlPolicy[1]>>, call.resource,
            Queried, call.conditions)

(***************************************************************************)
(* C19 - A conditional deny is not applied to a query without context:     *)
(* with an unconditional allow and only conditional denies on the queried  *)
(* resource and action, can without context (or with an empty array)       *)
(* returns true; the deny decides only when some supplied candidate        *)
(* matches one of its condition-sets.                                      *)
(***************************************************************************)
OnQuery(i) ==
    /\ accessControlPolicy[i].resource = call.resource
    /\ NamesAction(accessControlPolicy[i], Queried)

UnconditionalAllowOnQuery ==
    \E i \in StmtIndices :
        /\ OnQuery(i)
        /\ accessControlPolicy[i].effect = "allow"
        /\ ~IsConditional(accessControlPolicy[i])

DeniesOnQueryAreConditional ==
    \A j \in StmtIndices :
        (OnQuery(j) /\ accessControlPolicy[j].effect = "deny")
            => IsConditional(accessControlPolicy[j])

ConditionalDenyNeedsContext ==
    (IsCan /\ UnconditionalAllowOnQuery /\ DeniesOnQueryAreConditional) =>
        /\ ZeroCandidates => call.result = TRUE
        /\ call.result = FALSE <=>
              \E j \in StmtIndices :
                  accessControlPolicy[j].effect = "deny" /\ Applies(j)

\* an unconditional allow and a conditional deny on the queried resource and
\* action, queried without context: allowed
ConditionalDenyWitness ==
    /\ IsCan /\ call.conditions.kind = "undefined"
    /\ UnconditionalAllowOnQuery
    /\ \E j \in StmtIndices :
          /\ OnQuery(j) /\ accessControlPolicy[j].effect = "deny"
          /\ IsConditional(accessControlPolicy[j])
    /\ call.result = TRUE

(***************************************************************************)
(* C20 - Monotonicity: for a fixed query, adding a deny statement at any   *)
(* position never turns a false result into true, and adding an allow      *)
(* statement at any position never turns a true result into false.         *)
(***************************************************************************)
InsertAt(policy, pos, stmt) ==
    SubSeq(policy, 1, pos) \o <<stmt>> \o SubSeq(policy, pos + 1, Len(policy))

WithAdded(pos, stmt) ==
    can(InsertAt(accessControlPolicy, pos, stmt), call.resource, Queried,
        call.conditions)

Monotonicity ==
    IsCan =>
        \A stmt \in PolicyStatements : \A pos \in 0..Len(accessControlPolicy) :
            /\ (stmt.effect = "deny" /\ call.result = FALSE)
                   => WithAdded(pos, stmt) = FALSE
            /\ (stmt.effect = "allow" /\ call.result = TRUE)
                   => WithAdded(pos, stmt) = TRUE

\* an allowed query of a non-empty policy that an added deny statement turns
\* into a denied one, and that an added allow statement leaves allowed
MonotonicityWitness ==
    /\ IsCan /\ call.result = TRUE /\ Len(accessControlPolicy) > 0
    /\ \E stmt \in PolicyStatements : \E pos \in 0..Len(accessControlPolicy) :
          stmt.effect = "deny" /\ WithAdded(pos, stmt) = FALSE
    /\ \E stmt \in PolicyStatements : \E pos \in 0..Len(accessControlPolicy) :
          stmt.effect = "allow" /\ WithAdded(pos, stmt) = TRUE

(***************************************************************************)
(* Call-level specification: a caller that takes bound objects from        *)
(* getAccessPolicy and makes calls through them one after another.  A call *)
(* is entered with the caller's arguments (Invoke), runs to its result     *)
(* (Complete), and the caller takes the result (TakeResult); the completed *)
(* calls are remembered, latest last.                                      *)
(***************************************************************************)
\* number of completed calls remembered
MaxHistory == 2

\* the policies the caller binds
CallPolicies ==
    { <<Statement("POST", <<"read">>, "allow", Absent)>>,
      <<Statement("POST", <<"*">>, "allow", Absent),
        Statement("POST", <<"read">>, "deny", Present(<<[k \in {"a"} |-> "1"]>>))>>,
      <<Statement("*", <<"*">>, "allow", Absent),
        Statement("POST", <<"read">>, "deny", Absent)>> }

\* the calls the caller makes
Query(op, resource, actions, conditions) ==
    [op |-> op, resource |-> resource, actions |-> actions,
     conditions |-> conditions, result |-> FALSE]

CallContexts == {NoContext, OneContext([k \in {"a"} |-> "1"])}

CallQueries ==
    {Query("can", "POST", <<action>>, conditions) :
         action \in Actions, conditions \in CallContexts}
    \cup {Query(op, "POST", <<"read", "update">>, conditions) :
              op \in {"canAll", "canAny"}, conditions \in CallContexts}

\* lines 57-119, 122-129, 131-138: the function the call names
Evaluate(policy, query) ==
    CASE query.op = "can" ->
             can(policy, query.resource, query.actions[1], query.conditions)
      [] query.op = "canAll" ->
             canAll(policy, query.resource, query.actions, query.conditions)
      [] query.op = "canAny" ->
             canAny(policy, query.resource, query.actions, query.conditions)

\* a completed call as it is remembered
Entry(policy, done) ==
    [policy |-> policy, op |-> done.op, resource |-> done.resource,
     actions |-> done.actions, conditions |-> done.conditions,
     result |-> done.result]

Latest(entries) ==
    IF Len(entries) > MaxHistory
    THEN SubSeq(entries, Len(entries) - MaxHistory + 1, Len(entries))
    ELSE entries

\* lines 55, 140: the caller binds another policy
CallGetAccessPolicy(policy) ==
    /\ call.op = "none" /\ pending.op = "none"
    /\ policy # accessControlPolicy
    /\ accessControlPolicy' = policy
    /\ bound' = BoundTo(policy)
    /\ UNCHANGED <<call, pending, history, provider, rendered>>

\* the caller enters a call with its arguments
Invoke(query) ==
    /\ call.op = "none" /\ pending.op = "none"
    /\ pending' = query
    /\ UNCHANGED <<accessControlPolicy, call, bound, history, provider, rendered>>

\* variant: isAllowed is declared outside can and keeps its last value
CompleteCarried ==
    /\ pending.op # "none" /\ call.op = "none"
    /\ call' = [pending EXCEPT !.result =
                   IF pending.op = "can"
                   THEN Scan(relevantStatements(accessControlPolicy, pending.resource),
                             1, pending.actions[1],
                             inputConditions(pending.conditions),
                             Len(history) > 0 /\ history[Len(history)].result)
                   ELSE Evaluate(accessControlPolicy, pending)]
    /\ UNCHANGED callFrame

\* variant: the irrelevant statements are removed from the policy in place
CompleteInPlace ==
    /\ pending.op # "none" /\ call.op = "none"
    /\ call' = [pending EXCEPT !.result = Evaluate(accessControlPolicy, pending)]
    /\ accessControlPolicy' = relevantStatements(accessControlPolicy, pending.resource)
    /\ bound' = BoundTo(accessControlPolicy')
    /\ UNCHANGED <<pending, history, provider, rendered>>

\* lines 57-138: the call runs to its result; the locals of the call
\* (isAllowed, inputConditions, relevantStatements) are gone with it
Complete ==
    /\ pending.op # "none" /\ call.op = "none"
    /\ call' = [pending EXCEPT !.result = Evaluate(accessControlPolicy, pending)]
    /\ UNCHANGED callFrame

\* the caller has taken the result
TakeResult ==
    /\ pending.op # "none" /\ call.op # "none"
    /\ history' = Latest(Append(history, Entry(bound.policy, call)))
    /\ call' = NoCall
    /\ pending' = NoCall
    /\ UNCHANGED <<accessControlPolicy, bound, provider, rendered>>

InitCalls ==
    (\E policy \in CallPolicies : getAccessPolicy(policy)) /\ NoCalls /\ NoTree

Rebind == \E policy \in CallPolicies : CallGetAccessPolicy(policy)

Enter == \E query \in CallQueries : Invoke(query)

NextCalls == Rebind \/ Enter \/ Complete \/ TakeResult

SpecCalls == InitCalls /\ [][NextCalls]_vars

(***************************************************************************)
(* C13 - Determinism: two evaluations of can, canAll or canAny with equal  *)
(* policy, resource, action(s) and context return equal results, whatever  *)
(* was evaluated before or between them, on the same bound object or on    *)
(* another; no call's result depends on earlier calls.                     *)
(***************************************************************************)
Evaluations ==
    Range(history) \cup
        (IF call.op # "none" /\ pending.op # "none"
         THEN {Entry(bound.policy, call)} ELSE {})

SameInputs(e1, e2) ==
    /\ e1.policy = e2.policy /\ e1.op = e2.op /\ e1.resource = e2.resource
    /\ e1.actions = e2.actions /\ e1.conditions = e2.conditions

InCall == pending.op # "none"

InputsNotMutated ==
    [][/\ bound'.policy = accessControlPolicy'
       /\ (InCall \/ InCall') => accessControlPolicy' = accessControlPolicy
       /\ (InCall /\ InCall') =>
              /\ pending' = pending
              /\ call'.conditions = pending.conditions
              /\ call'.actions = pending.actions]_vars

\* a call with a context map has completed on a policy that holds a
\* statement of another resource, after earlier calls
InputsWitness ==
    /\ InCall /\ call.op # "none" /\ Len(history) > 0
    /\ pending.conditions.kind = "object"
    /\ \E i \in StmtIndices : ~IsRelevant(accessControlPolicy[i], call.resource)
    /\ bound.policy = accessControlPolicy

(***************************************************************************)
(* Tree-level specification: an AccessPolicyProvider and one consumer      *)
(* below it (an AccessPolicyGuard, a component wrapped by withAccessPolicy *)
(* or a component that calls useAccessPolicy and one of the functions it   *)
(* returns).  The provider is rendered again with other props; a consumer  *)
(* rendered while no provider is rendered has no enclosing provider.       *)
(* isLoading and loadingFallback are the props README.md (lines 574, 593)  *)
(* documents; the components receive them as any other prop.               *)
(***************************************************************************)
TreePolicies == CallPolicies \cup {<<>>}

\* lines 20-35: the props of a consumer, before it is rendered
Props(component, query, fallback, loadingFallback) ==
    [component |-> component, op |-> query.op, resource |-> query.resource,
     actions |-> query.actions, conditions |-> query.conditions,
     fallback |-> fallback, loadingFallback |-> loadingFallback,
     error |-> "", decision |-> "none", output |-> "none"]

CanQueries == {query \in CallQueries : query.op = "can"}

\* lines 170-172
OutsideProvider == "useAccessPolicy must be used within an AccessPolicyProvider"

\* line 168: useContext(AccessPolicyContext), the value of the nearest
\* provider above or the default
useContext == IF provider.mounted THEN bound ELSE NoObject

\* variant: the context is returned without the test for undefined
useAccessPolicyUnchecked(context) == [threw |-> FALSE, context |-> context]

\* lines 167-175
useAccessPolicy(context) ==
    IF ~context.defined
    THEN [threw |-> TRUE, context |-> NoObject]
    ELSE [threw |-> FALSE, context |-> context]

\* the render was left by the error thrown at lines 170-172
Threw(props) == [props EXCEPT !.error = OutsideProvider]

\* variant: the branches are exchanged
AccessPolicyGuardInverted(context, props) ==
    LET hook == useAccessPolicy(context)
    IN  IF hook.threw THEN Threw(props)
        ELSE IF ~can(hook.context.policy, props.resource, props.actions[1],
                     props.conditions)
             THEN [props EXCEPT !.output = "children"]
             ELSE [props EXCEPT !.output =
                      IF props.fallback THEN "fallback" ELSE "null"]

\* lines 180-194
AccessPolicyGuard(context, props) ==
    LET hook == useAccessPolicy(context)
    IN  IF hook.threw THEN Threw(props)
        ELSE IF can(hook.context.policy, props.resource, props.actions[1],
                    props.conditions)
             THEN [props EXCEPT !.output = "children"]
             ELSE [props EXCEPT !.output =
                      IF props.fallback THEN "fallback" ELSE "null"]

\* lines 206-227: the component withAccessPolicy returns
withAccessPolicy(context, props) ==
    LET hook == useAccessPolicy(context)
    IN  IF hook.threw THEN Threw(props)
        ELSE IF can(hook.context.policy, props.resource, props.actions[1],
                    props.conditions)
             THEN [props EXCEPT !.output = "children"]
             ELSE IF props.fallback THEN [props EXCEPT !.output = "fallback"]
             ELSE [props EXCEPT !.output = "null"]

\* a component that calls useAccessPolicy and then one of can, canAll, canAny
HookUser(context, props) ==
    LET hook == useAccessPolicy(context)
    IN  IF hook.threw THEN Threw(props)
        ELSE [props EXCEPT !.decision =
                 IF Evaluate(hook.context.policy, props) THEN "true" ELSE "false"]

\* the consumer is rendered under the context value
Render(context, props) ==
    CASE props.component = "AccessPolicyGuard" -> AccessPolicyGuard(context, props)
      [] props.component = "withAccessPolicy" -> withAccessPolicy(context, props)
      [] props.component = "useAccessPolicy" -> HookUser(context, props)
      [] OTHER -> props

\* variant: useMemo with an empty dependency list
useMemoOnce(deps, value, policy) ==
    IF value.defined THEN value ELSE BoundTo(policy)

\* lines 150-153: useMemo(() => getAccessPolicy(accessControlPolicy),
\* [accessControlPolicy]); no value is kept before the first render
useMemo(deps, value, policy) ==
    IF value.defined /\ deps = policy THEN value ELSE BoundTo(policy)

\* lines 146-159: the provider is rendered, for the first time or again; a
\* consumer below it is rendered again under the new context value.  previous
\* remembers the dependency list this render compared its own with.
AccessPolicyProvider(policy, isLoading) ==
    /\ provider.mounted \/ rendered.component = "none"
    /\ accessControlPolicy' = policy
    /\ bound' = useMemo(provider.deps, bound, policy)
    /\ provider' = [mounted |-> TRUE, isLoading |-> isLoading, deps |-> policy,
                     previous |-> provider.deps]
    /\ rendered' = Render(bound', Props(rendered.component, rendered,
                                        rendered.fallback, rendered.loadingFallback))
    /\ UNCHANGED <<call, pending, history>>

\* a consumer is rendered for the first time
Mount(props) ==
    /\ rendered.component = "none"
    /\ rendered' = Render(useContext, props)
    /\ UNCHANGED <<accessControlPolicy, call, bound, pending, history, provider>>

\* the tree is taken down
Unmount ==
    /\ provider.mounted \/ rendered.component # "none"
    /\ provider' = NoProvider
    /\ rendered' = NotRendered
    /\ bound' = NoObject
    /\ accessControlPolicy' = <<>>
    /\ UNCHANGED <<call, pending, history>>

InitTree ==
    /\ accessControlPolicy = <<>>
    /\ bound = NoObject
    /\ call = NoCall
    /\ NoCalls
    /\ NoTree

RenderProvider ==
    \E policy \in TreePolicies, isLoading \in BOOLEAN :
        AccessPolicyProvider(policy, isLoading)

RenderGuard ==
    \E query \in CanQueries, fallback \in BOOLEAN, loadingFallback \in BOOLEAN :
        Mount(Props("AccessPolicyGuard", query, fallback, loadingFallback))

RenderWrapped ==
    \E query \in CanQueries, fallback \in BOOLEAN :
        Mount(Props("withAccessPolicy", query, fallback, FALSE))

RenderHookUser ==
    \E query \in CallQueries : Mount(Props("useAccessPolicy", query, FALSE, FALSE))

NextTree == RenderProvider \/ RenderGuard \/ RenderWrapped \/ RenderHookUser \/ Unmount

SpecTree == InitTree /\ [][NextTree]_vars

\* vocabulary of the tree-level claims
IsGuard == rendered.component = "AccessPolicyGuard"

IsConsumer == rendered.component # "none"

\* can on the policy the provider was last rendered with
CanNow ==
    can(accessControlPolicy, rendered.resource, rendered.actions[1],
        rendered.conditions)

(***************************************************************************)
(* C15 - Invocation-context error: useAccessPolicy, AccessPolicyGuard and  *)
(* a component wrapped by withAccessPolicy, rendered with no enclosing     *)
(* AccessPolicyProvider, raise "useAccessPolicy must be used within an     *)
(* AccessPolicyProvider" and give no decision and no output; inside a      *)
(* provider they never raise.                                              *)
(***************************************************************************)
InvocationContextError ==
    IsConsumer =>
        /\ ~provider.mounted =>
               /\ rendered.error = OutsideProvider
               /\ rendered.decision = "none"
               /\ rendered.output = "none"
        /\ provider.mounted => rendered.error = ""

\* a guard rendered with no provider above it has raised the error
OutsideProviderWitness ==
    /\ IsGuard /\ ~provider.mounted
    /\ rendered.error = OutsideProvider

LoadingState ==
    (IsGuard /\ provider.mounted) =>
        IF provider.isLoading
        THEN rendered.output =
                 IF rendered.loadingFallback THEN "loadingFallback" ELSE "null"
        ELSE /\ rendered.output # "loadingFallback"
             /\ rendered.output = "children" <=> CanNow

(***************************************************************************)
(* C18 - No stale decisions in the provider: after any sequence of policy  *)
(* changes handed to AccessPolicyProvider the object useAccessPolicy       *)
(* returns is bound to the provider's current policy; every can, canAll    *)
(* and canAny made through it and every rendered guard equals the          *)
(* evaluation against the current policy.                                  *)
(***************************************************************************)
NoStaleDecision ==
    provider.mounted =>
        /\ useAccessPolicy(useContext).context = BoundTo(accessControlPolicy)
        /\ rendered.component = "useAccessPolicy" =>
               rendered.decision =
                   IF Evaluate(accessControlPolicy, rendered) THEN "true" ELSE "false"
        /\ rendered.component \in {"AccessPolicyGuard", "withAccessPolicy"} =>
               (rendered.output = "children" <=> CanNow)

\* the provider was rendered again with another policy, under which the
\* consumer's call gives the other result, and the consumer shows the new one
PolicyChangedWitness ==
    /\ provider.mounted /\ rendered.component = "useAccessPolicy"
    /\ provider.previous # <<>> /\ provider.previous # accessControlPolicy
    /\ Evaluate(provider.previous, rendered) # Evaluate(accessControlPolicy, rendered)
    /\ rendered.decision =
           IF Evaluate(accessControlPolicy, rendered) THEN "true" ELSE "false"

(***************************************************************************)
(* C21 - Empty condition-set: a statement whose conditions list contains   *)
(* an empty attribute-map is satisfied by every query that supplies at     *)
(* least one context candidate, the single empty map included, and by no   *)
(* query with zero candidates; a statement without conditions is satisfied *)
(* by those too, so the two are not equivalent.                            *)
(***************************************************************************)
HasEmptyConditionSet(stmt) ==
    /\ IsConditional(stmt)
    /\ \E p \in 1..Len(stmt.conditions.value) : DOMAIN stmt.conditions.value[p] = {}

WithoutConditions(stmt) == [stmt EXCEPT !.conditions = Absent]

EmptyConditionSet ==
    (IsCan /\ TheStatement.effect = "allow" /\ HasEmptyConditionSet(TheStatement)) =>
        /\ ~ZeroCandidates => call.result = TRUE
        /\ ZeroCandidates =>
               /\ call.result = FALSE
               /\ can(<<WithoutConditions(TheStatement)>>, call.resource, Queried,
                      call.conditions) = TRUE

\* the conditions list is the one empty map and the context is the one empty
\* map: allowed
EmptyConditionSetWitness ==
    /\ IsCan /\ TheStatement.effect = "allow"
    /\ Len(TheStatement.conditions.value) = 1
    /\ HasEmptyConditionSet(TheStatement)
    /\ call.conditions.kind = "object" /\ DOMAIN call.conditions.object = {}
    /\ call.result = TRUE

====
